---- MODULE Spec2Model ----
(***************************************************************************)
(* gcredstash driver: versioned secrets, envelope-encrypted with a KMS     *)
(* data key and kept in a DynamoDB table keyed by (name HASH, version      *)
(* RANGE), both string-typed.                                              *)
(*                                                                         *)
(* Strings the code parses, orders or encodes are sequences of character   *)
(* codes (ASCII); byte strings are sequences of 0..255.  Names are opaque  *)
(* model strings: the code only compares them for equality.                *)
(*                                                                         *)
(* The two remote services are part of the state: the table is one copy    *)
(* that every request reads and writes atomically (a read sees the latest  *)
(* write, whether or not it asks for ConsistentRead, and a Scan or Query   *)
(* answers in one page), and the key-management service unwraps a data     *)
(* key only under the context it was generated with.  Any request can fail *)
(* with a service error, and a request that fails has changed nothing.     *)
(* The data operations run against a table that is active; CreateDdbTable  *)
(* is modelled with the status the service keeps for each table name.      *)
(***************************************************************************)
EXTENDS Integers, Sequences, FiniteSets, TLC

(***************************************************************************)
(* Bounds of the model and program constants                               *)
(***************************************************************************)
\* data keys the key-management service issues in one run
MaxKeys == 3
\* calls the callers start in one run
MaxCalls == 4
\* calls started in one run of the specifications with concurrent callers
MaxConcurrentCalls == 3
\* alterations of stored records by a party outside the program
MaxTamper == 1

\* NumberOfBytes of GenerateDataKey
DataKeyBytes == 64
\* kmsResp.Plaintext[:32] / [32:]
EncKeyBytes == 32
\* sha256.Size, the length of an HMAC-SHA256 tag
MacBytes == 32

(***************************************************************************)
(* Input domains                                                           *)
(***************************************************************************)
Procs == {"p1", "p2"}
Names == {"a", "b"}
\* "1", "9", "10" and the non-numeric "x"
Versions == {<<49>>, <<57>>, <<49, 48>>, <<120>>}
\* "" selects the latest version (Get) or every version (Delete)
NoVersion == <<>>
\* "s" and "new"
Secrets == {<<115>>, <<110, 101, 119>>}
\* encryption contexts: none, {env: prod}, {env: dev}
Contexts == {{}, {<<"env", "prod">>}, {<<"env", "dev">>}}
KmsKeyId == "alias/credstash"
\* the table of the data operations, and the names CreateDdbTable is called with
TableName == "credential-store"
TableNames == {TableName, "staging"}

(***************************************************************************)
(* Generic helpers                                                         *)
(***************************************************************************)
RECURSIVE XorBits(_, _, _)
\* bitwise exclusive or of the low n bits of a and b
XorBits(a, b, n) ==
    IF n = 0 THEN 0
    ELSE ((a + b) % 2) + 2 * XorBits(a \div 2, b \div 2, n - 1)

Xor(a, b) == XorBits(a, b, 8)

\* byte-wise order of two strings, the order of a DynamoDB string range key
RECURSIVE StrLess(_, _)
StrLess(s, t) ==
    IF t = <<>> THEN FALSE
    ELSE IF s = <<>> THEN TRUE
    ELSE IF Head(s) # Head(t) THEN Head(s) < Head(t)
    ELSE StrLess(Tail(s), Tail(t))

(***************************************************************************)
(* strconv.Atoi: an optional sign followed by one or more decimal digits   *)
(***************************************************************************)
IsDigit(c) == c >= 48 /\ c <= 57

AllDigits(s) == s # <<>> /\ \A i \in 1..Len(s) : IsDigit(s[i])

AtoiOk(s) ==
    IF s # <<>> /\ (Head(s) = 43 \/ Head(s) = 45) THEN AllDigits(Tail(s))
    ELSE AllDigits(s)

RECURSIVE DigitsValue(_, _)
DigitsValue(s, acc) ==
    IF s = <<>> THEN acc ELSE DigitsValue(Tail(s), 10 * acc + (Head(s) - 48))

\* the value of Atoi where AtoiOk holds
Atoi(s) ==
    IF Head(s) = 45 THEN 0 - DigitsValue(Tail(s), 0)
    ELSE IF Head(s) = 43 THEN DigitsValue(Tail(s), 0)
    ELSE DigitsValue(s, 0)

(***************************************************************************)
(* encoding/hex                                                            *)
(***************************************************************************)
HexDigit(n) == IF n < 10 THEN 48 + n ELSE 87 + n

RECURSIVE HexEncode(_)
\* hex.EncodeToString: two lower-case digits per byte
HexEncode(b) ==
    IF b = <<>> THEN <<>>
    ELSE <<HexDigit(Head(b) \div 16), HexDigit(Head(b) % 16)>> \o HexEncode(Tail(b))

IsHexChar(c) ==
    \/ (c >= 48 /\ c <= 57)
    \/ (c >= 97 /\ c <= 102)
    \/ (c >= 65 /\ c <= 70)

HexValue(c) ==
    IF c <= 57 THEN c - 48 ELSE IF c >= 97 THEN c - 87 ELSE c - 55

\* hex.DecodeString fails on an odd length or a character that is no hex digit
HexOk(s) == Len(s) % 2 = 0 /\ \A i \in 1..Len(s) : IsHexChar(s[i])

HexDecode(s) ==
    [i \in 1..(Len(s) \div 2) |-> 16 * HexValue(s[2 * i - 1]) + HexValue(s[2 * i])]

(***************************************************************************)
(* encoding/base64, StdEncoding (padded)                                   *)
(***************************************************************************)
B64Char(n) ==
    IF n < 26 THEN 65 + n
    ELSE IF n < 52 THEN 97 + (n - 26)
    ELSE IF n < 62 THEN 48 + (n - 52)
    ELSE IF n = 62 THEN 43 ELSE 47

B64Pad == 61

RECURSIVE B64Encode(_)
B64Encode(b) ==
    IF b = <<>> THEN <<>>
    ELSE IF Len(b) = 1 THEN
        <<B64Char(b[1] \div 4), B64Char((b[1] % 4) * 16), B64Pad, B64Pad>>
    ELSE IF Len(b) = 2 THEN
        <<B64Char(b[1] \div 4),
          B64Char((b[1] % 4) * 16 + b[2] \div 16),
          B64Char((b[2] % 16) * 4), B64Pad>>
    ELSE
        <<B64Char(b[1] \div 4),
          B64Char((b[1] % 4) * 16 + b[2] \div 16),
          B64Char((b[2] % 16) * 4 + b[3] \div 64),
          B64Char(b[3] % 64)>> \o B64Encode(SubSeq(b, 4, Len(b)))

IsB64Char(c) ==
    \/ (c >= 65 /\ c <= 90)
    \/ (c >= 97 /\ c <= 122)
    \/ (c >= 48 /\ c <= 57)
    \/ c = 43
    \/ c = 47

B64Value(c) ==
    IF c >= 97 THEN 26 + (c - 97)
    ELSE IF c >= 65 THEN c - 65
    ELSE IF c >= 48 THEN 52 + (c - 48)
    ELSE IF c = 43 THEN 62 ELSE 63

\* the decoder skips carriage returns and line feeds
RECURSIVE B64Strip(_)
B64Strip(s) ==
    IF s = <<>> THEN <<>>
    ELSE IF Head(s) = 10 \/ Head(s) = 13 THEN B64Strip(Tail(s))
    ELSE <<Head(s)>> \o B64Strip(Tail(s))

\* number of padding characters ending a stripped string
B64Pads(s) ==
    IF Len(s) >= 2 /\ s[Len(s)] = B64Pad /\ s[Len(s) - 1] = B64Pad THEN 2
    ELSE IF Len(s) >= 1 /\ s[Len(s)] = B64Pad THEN 1 ELSE 0

\* a stripped string decodes when it is whole quanta of alphabet characters and
\* padding only ends the last quantum (StdEncoding is not strict: the bits
\* under the padding are not checked)
B64StrippedOk(s) ==
    /\ Len(s) % 4 = 0
    /\ \A i \in 1..(Len(s) - B64Pads(s)) : IsB64Char(s[i])

B64Ok(s) == B64StrippedOk(B64Strip(s))

RECURSIVE B64DecodeStripped(_)
B64DecodeStripped(s) ==
    IF s = <<>> THEN <<>>
    ELSE IF Len(s) = 4 /\ s[4] = B64Pad /\ s[3] = B64Pad THEN
        <<B64Value(s[1]) * 4 + B64Value(s[2]) \div 16>>
    ELSE IF Len(s) = 4 /\ s[4] = B64Pad THEN
        <<B64Value(s[1]) * 4 + B64Value(s[2]) \div 16,
          (B64Value(s[2]) % 16) * 16 + B64Value(s[3]) \div 4>>
    ELSE
        <<B64Value(s[1]) * 4 + B64Value(s[2]) \div 16,
          (B64Value(s[2]) % 16) * 16 + B64Value(s[3]) \div 4,
          (B64Value(s[3]) % 4) * 64 + B64Value(s[4])>>
        \o B64DecodeStripped(SubSeq(s, 5, Len(s)))

\* the value of base64.StdEncoding.DecodeString where B64Ok holds
B64Decode(s) == B64DecodeStripped(B64Strip(s))

(***************************************************************************)
(* Crypto primitives                                                       *)
(***************************************************************************)
\* AES-256 in counter mode with the fixed IV 00..01: the key decides a
\* keystream and the text is xored with it.  The block cipher is abstracted
\* to a keystream that is a function of the key and the position.
KeyStream(key, i) == (key[((i - 1) % Len(key)) + 1] + 13 * i) % 256

cryptAES(contents, key) ==
    [i \in 1..Len(contents) |-> Xor(contents[i], KeyStream(key, i))]

\* the message framed to the tag length: its length, its bytes, zero fill
MacFrame(message) ==
    [i \in 1..MacBytes |->
        IF i = 1 THEN Len(message) % 256
        ELSE IF i - 1 <= Len(message) THEN message[i - 1] ELSE 0]

\* HMAC-SHA256 abstracted to a keyed tag of MacBytes bytes that is injective
\* in messages shorter than MacBytes (no collisions within the model)
doHmac(message, key) ==
    [i \in 1..MacBytes |-> Xor(MacFrame(message)[i], key[i])]

\* the outcome of checkMAC: "panic" when the stored tag is no hex string
checkMAC(message, hmacStr, key) ==
    IF ~HexOk(hmacStr) THEN "panic"
    ELSE IF HexDecode(hmacStr) = doHmac(message, key) THEN "true" ELSE "false"

(***************************************************************************)
(* The key-management service.  kms is the sequence of the contexts the    *)
(* issued data keys are bound to; key i is wrapped as Blob(i).             *)
(***************************************************************************)
\* the 64 bytes of data key i (distinct keys for distinct i)
KeyMaterial(id) == [i \in 1..DataKeyBytes |-> (37 * id + 11 * i) % 256]

Blob(id) == <<75, id>>

\* the EncryptionContext of a request: set only when len(context) > 0
EncCtx(context) == IF Cardinality(context) > 0 THEN context ELSE {}

KmsKnows(k, blob, ctx) ==
    \E id \in 1..Len(k) : blob = Blob(id) /\ k[id] = ctx

KmsPlaintext(k, blob) ==
    KeyMaterial(CHOOSE id \in 1..Len(k) : blob = Blob(id))

(***************************************************************************)
(* Outcomes of a call.  kind is "ok", "error" (an error value returned),   *)
(* "panic" (the call aborts the process) or "none" (no outcome yet).       *)
(***************************************************************************)
Ret(kind, code, name, num, text, list) ==
    [kind |-> kind, code |-> code, name |-> name, num |-> num,
     text |-> text, list |-> list]

NoRet == Ret("none", "", "", 0, <<>>, {})
Ok == Ret("ok", "", "", 0, <<>>, {})
OkText(text) == Ret("ok", "", "", 0, text, {})
OkNum(num) == Ret("ok", "", "", num, <<>>, {})
OkList(list) == Ret("ok", "", "", 0, <<>>, list)
Err(code, name, num) == Ret("error", code, name, num, <<>>, {})
Panic(code) == Ret("panic", code, "", 0, <<>>, {})

\* failures of the remote services that a call can meet at any request
StoreFaults == {"ProvisionedThroughputExceededException"}
KmsFaults == {"KMSInternalException"}
NoFault == "none"
ServiceErrors == StoreFaults \cup KmsFaults \cup {"ValidationException"}

\* strings.Contains(err.Error(), "ConditionalCheckFailedException")
ConditionalCheckFailed == "ConditionalCheckFailedException"
\* strings.Contains(err.Error(), "InvalidCiphertextException")
InvalidCiphertext == "InvalidCiphertextException"

(***************************************************************************)
(* The table: a set of items; (name, version) is its primary key.          *)
(***************************************************************************)
Item(name, version, key, contents, hmac) ==
    [name |-> name, version |-> version, key |-> key,
     contents |-> contents, hmac |-> hmac]

NoItem == Item("", <<>>, <<>>, <<>>, <<>>)

ItemsOf(tbl, name) == {i \in tbl : i.name = name}

ItemAt(tbl, name, version) == {i \in tbl : i.name = name /\ i.version = version}

\* Query with ScanIndexForward false and Limit 1: the items of the
\* partition in descending order of the range key, the first of them
QueryNewest(tbl, name) ==
    {i \in ItemsOf(tbl, name) :
        \A j \in ItemsOf(tbl, name) : ~StrLess(i.version, j.version)}

(***************************************************************************)
(* getMaterial: the result and the item found                              *)
(***************************************************************************)
getMaterial(name, version, tbl, fault) ==
    IF fault # NoFault THEN [ret |-> Err(fault, "", 0), material |-> NoItem]
    ELSE IF version = NoVersion THEN
        IF QueryNewest(tbl, name) = {}
        THEN [ret |-> Err("NotFound", name, 0), material |-> NoItem]
        ELSE [ret |-> Ok, material |-> CHOOSE i \in QueryNewest(tbl, name) : TRUE]
    ELSE
        IF ItemAt(tbl, name, version) = {}
        THEN [ret |-> Err("NotFound", name, 0), material |-> NoItem]
        ELSE [ret |-> Ok, material |-> CHOOSE i \in ItemAt(tbl, name, version) : TRUE]

(***************************************************************************)
(* decryptMaterial: the outcome of opening an item under a context         *)
(***************************************************************************)
\* the error for a Decrypt the service refused as invalid ciphertext
DecryptHintSwapped(name, context) ==
    IF Cardinality(context) < 1
    THEN Err("DecryptContextMismatch", name, 0)
    ELSE Err("DecryptContextRequired", name, 0)

DecryptHint(name, context) ==
    IF Cardinality(context) < 1
    THEN Err("DecryptContextRequired", name, 0)
    ELSE Err("DecryptContextMismatch", name, 0)

\* after Decrypt: split the key, decode the contents, check the MAC, decrypt
OpenSealedKeysSwapped(name, material, plain) ==
    LET key == SubSeq(plain, EncKeyBytes + 1, Len(plain))
        hmacKey == SubSeq(plain, 1, EncKeyBytes)
    IN  IF ~B64Ok(material.contents) THEN Err("base64", "", 0)
        ELSE LET contents == B64Decode(material.contents)
                 mac == checkMAC(contents, material.hmac, hmacKey)
             IN  IF mac = "panic" THEN Panic("hex")
                 ELSE IF mac = "false" THEN Err("HmacMismatch", name, 0)
                 ELSE OkText(cryptAES(contents, key))

OpenSealed(name, material, plain) ==
    LET key == SubSeq(plain, 1, EncKeyBytes)
        hmacKey == SubSeq(plain, EncKeyBytes + 1, Len(plain))
    IN  IF ~B64Ok(material.contents) THEN Err("base64", "", 0)
        ELSE LET contents == B64Decode(material.contents)
                 mac == checkMAC(contents, material.hmac, hmacKey)
             IN  IF mac = "panic" THEN Panic("hex")
                 ELSE IF mac = "false" THEN Err("HmacMismatch", name, 0)
                 ELSE OkText(cryptAES(contents, key))

\* the Decrypt request: the error ("" for none) and the plaintext
KmsDecrypt(k, blob, ctx, fault) ==
    IF fault # NoFault THEN [err |-> fault, plaintext |-> <<>>]
    ELSE IF ~KmsKnows(k, blob, ctx)
    THEN [err |-> InvalidCiphertext, plaintext |-> <<>>]
    ELSE [err |-> "", plaintext |-> KmsPlaintext(k, blob)]

decryptMaterial(name, material, context, k, fault) ==
    IF ~B64Ok(material.key) THEN Panic("base64")
    ELSE LET resp == KmsDecrypt(k, B64Decode(material.key), EncCtx(context), fault)
         IN  IF resp.err # ""
             THEN IF resp.err = InvalidCiphertext
                  THEN DecryptHint(name, context)
                  ELSE Err(resp.err, "", 0)
             ELSE OpenSealed(name, material, resp.plaintext)

(***************************************************************************)
(* GetHighestVersion                                                       *)
(***************************************************************************)
GetHighestVersion(name, tbl, fault) ==
    IF fault # NoFault THEN Ret("error", fault, "", -1, <<>>, {})
    ELSE IF QueryNewest(tbl, name) = {} THEN OkNum(0)
    ELSE LET version == (CHOOSE i \in QueryNewest(tbl, name) : TRUE).version
         IN  IF ~AtoiOk(version) THEN Panic("atoi") ELSE OkNum(Atoi(version))

(***************************************************************************)
(* generateDataKey: the outcome and the context the new key is bound to    *)
(***************************************************************************)
generateDataKey(kmsKey, context, fault) ==
    IF fault # NoFault
    THEN [ret |-> Err("CouldNotGenerateKey", kmsKey, 0), bound |-> {}]
    ELSE [ret |-> Ok, bound |-> EncCtx(context)]

(***************************************************************************)
(* putItem: the error ("" for none) and the table after the request.       *)
(* The service refuses an empty key attribute, then evaluates              *)
(* attribute_not_exists(name) on the item with the same primary key.       *)
(***************************************************************************)
\* putItem without its ConditionExpression: the item is replaced
putItemUnconditional(name, version, key, contents, hmac, tbl, fault) ==
    LET new == Item(name, version, B64Encode(key), B64Encode(contents),
                    HexEncode(hmac))
    IN  IF fault # NoFault THEN [err |-> fault, tbl |-> tbl]
        ELSE IF version = <<>> THEN [err |-> "ValidationException", tbl |-> tbl]
        ELSE [err |-> "", tbl |-> (tbl \ ItemAt(tbl, name, version)) \cup {new}]

\* putItem whose write is not held back by its condition: the item is
\* replaced and the failed condition reported
putItemOverwriting(name, version, key, contents, hmac, tbl, fault) ==
    LET new == Item(name, version, B64Encode(key), B64Encode(contents),
                    HexEncode(hmac))
    IN  IF fault # NoFault THEN [err |-> fault, tbl |-> tbl]
        ELSE IF version = <<>> THEN [err |-> "ValidationException", tbl |-> tbl]
        ELSE [err |-> IF ItemAt(tbl, name, version) # {}
                      THEN ConditionalCheckFailed ELSE "",
              tbl |-> (tbl \ ItemAt(tbl, name, version)) \cup {new}]

putItem(name, version, key, contents, hmac, tbl, fault) ==
    LET new == Item(name, version, B64Encode(key), B64Encode(contents),
                    HexEncode(hmac))
    IN  IF fault # NoFault THEN [err |-> fault, tbl |-> tbl]
        ELSE IF version = <<>> THEN [err |-> "ValidationException", tbl |-> tbl]
        ELSE IF ItemAt(tbl, name, version) # {}
        THEN [err |-> ConditionalCheckFailed, tbl |-> tbl]
        ELSE [err |-> "", tbl |-> (tbl \ ItemAt(tbl, name, version)) \cup {new}]

(***************************************************************************)
(* getDeleteSecrets: the outcome and the (name, version) pairs to delete.  *)
(* The Go map is keyed by the pointers of the response, which are distinct *)
(* for distinct items, so every item of the response has an entry.         *)
(***************************************************************************)
KeysOf(its) == {<<i.name, i.version>> : i \in its}

\* one entry for each name of the response
OnePerName(keys) ==
    {k \in keys : \A l \in keys : l[1] = k[1] => ~StrLess(k[2], l[2])}

\* getDeleteSecrets with its map keyed by the names, not by their pointers
getDeleteSecretsByValue(name, version, tbl, fault) ==
    IF fault # NoFault THEN [ret |-> Err(fault, "", 0), items |-> {}]
    ELSE IF version = NoVersion THEN
        IF ItemsOf(tbl, name) = {}
        THEN [ret |-> Err("NotFound", name, 0), items |-> {}]
        ELSE [ret |-> Ok, items |-> OnePerName(KeysOf(ItemsOf(tbl, name)))]
    ELSE
        IF ItemAt(tbl, name, version) = {}
        THEN IF ~AtoiOk(version)
             THEN [ret |-> Panic("atoi"), items |-> {}]
             ELSE [ret |-> Err("NotFoundVersion", name, Atoi(version)), items |-> {}]
        ELSE [ret |-> Ok, items |-> KeysOf(ItemAt(tbl, name, version))]

\* getDeleteSecrets that looks up, for every version, the newest item only
\* (the Query of getMaterial in place of the Scan)
getDeleteSecretsNewest(name, version, tbl, fault) ==
    IF fault # NoFault THEN [ret |-> Err(fault, "", 0), items |-> {}]
    ELSE IF version = NoVersion THEN
        IF ItemsOf(tbl, name) = {}
        THEN [ret |-> Err("NotFound", name, 0), items |-> {}]
        ELSE [ret |-> Ok, items |-> KeysOf(QueryNewest(tbl, name))]
    ELSE
        IF ItemAt(tbl, name, version) = {}
        THEN IF ~AtoiOk(version)
             THEN [ret |-> Panic("atoi"), items |-> {}]
             ELSE [ret |-> Err("NotFoundVersion", name, Atoi(version)), items |-> {}]
        ELSE [ret |-> Ok, items |-> KeysOf(ItemAt(tbl, name, version))]

getDeleteSecrets(name, version, tbl, fault) ==
    IF fault # NoFault THEN [ret |-> Err(fault, "", 0), items |-> {}]
    ELSE IF version = NoVersion THEN
        IF ItemsOf(tbl, name) = {}
        THEN [ret |-> Err("NotFound", name, 0), items |-> {}]
        ELSE [ret |-> Ok, items |-> KeysOf(ItemsOf(tbl, name))]
    ELSE
        IF ItemAt(tbl, name, version) = {}
        THEN IF ~AtoiOk(version)
             THEN [ret |-> Panic("atoi"), items |-> {}]
             ELSE [ret |-> Err("NotFoundVersion", name, Atoi(version)), items |-> {}]
        ELSE [ret |-> Ok, items |-> KeysOf(ItemAt(tbl, name, version))]

(***************************************************************************)
(* deleteItem: the error ("" for none) and the table after the request;    *)
(* deleting an absent key is no error.                                     *)
(***************************************************************************)
deleteItem(name, version, tbl, fault) ==
    IF fault # NoFault THEN [err |-> fault, tbl |-> tbl]
    ELSE [err |-> "", tbl |-> tbl \ ItemAt(tbl, name, version)]

(***************************************************************************)
(* ListSecrets: the outcome with the (name, version) entries of its map,   *)
(* which is keyed by the pointers of the response like that of             *)
(* getDeleteSecrets.                                                       *)
(***************************************************************************)
\* ListSecrets with its map keyed by the names, not by their pointers
ListSecretsByValue(tbl, fault) ==
    IF fault # NoFault THEN Err(fault, "", 0) ELSE OkList(OnePerName(KeysOf(tbl)))

ListSecrets(tbl, fault) ==
    IF fault # NoFault THEN Err(fault, "", 0) ELSE OkList(KeysOf(tbl))

(***************************************************************************)
(* State                                                                   *)
(***************************************************************************)
VARIABLES
    table,      \* the items of the credential table
    kms,        \* the contexts of the data keys the service has issued
    pc,         \* per caller: the request its call makes next
    args,       \* per caller: the call and its arguments
    seal,       \* PutSecret: wrappedKey, cipherText and hmac
    material,   \* GetSecret: the item getMaterial returned
    items,      \* DeleteSecrets: the entries of items not yet visited
    out,        \* per caller: the lines its call printed
    rpc,        \* per caller: the remote requests its call has made
    ret,        \* per caller: the outcome of its call
    calls,      \* calls started so far
    before,     \* history: the table when the caller's call started
    written,    \* history: what the Put behind each stored item sealed
    tampered,   \* alterations made to stored items from outside
    met,        \* history: the error a remote service last answered the call with
    scan,       \* history: the table when DeleteSecrets looked its items up
    ddb         \* per table name: its status and the CreateTable requests accepted

vars == <<table, kms, pc, args, seal, material, items, out, rpc, ret, calls,
          before, written, tampered, met, scan, ddb>>

Args(op, name, version, secret, context) ==
    [op |-> op, name |-> name, version |-> version, secret |-> secret,
     context |-> context]

NoArgs == Args("", "", <<>>, <<>>, {})

NoSeal == [key |-> <<>>, contents |-> <<>>, hmac |-> <<>>]

\* the status of a table name and the CreateTable requests accepted for it
TableState(status, created) == [status |-> status, created |-> created]

\* nothing stored, no key issued, every caller at rest
Fresh ==
    /\ table = {}
    /\ kms = <<>>
    /\ pc = [p \in Procs |-> "idle"]
    /\ args = [p \in Procs |-> NoArgs]
    /\ seal = [p \in Procs |-> NoSeal]
    /\ material = [p \in Procs |-> NoItem]
    /\ items = [p \in Procs |-> {}]
    /\ out = [p \in Procs |-> <<>>]
    /\ rpc = [p \in Procs |-> 0]
    /\ ret = [p \in Procs |-> NoRet]
    /\ calls = 0
    /\ before = [p \in Procs |-> {}]
    /\ written = {}
    /\ tampered = 0
    /\ met = [p \in Procs |-> ""]
    /\ scan = [p \in Procs |-> {}]

\* the credential table has been created and is active
Init ==
    /\ Fresh
    /\ ddb = [t \in TableNames |-> TableState("ACTIVE", 0)]

Resting(p) == pc[p] \in {"idle", "done"}

\* a caller at rest starts a call: its locals are fresh
Begin(p, a, first) ==
    /\ Resting(p)
    /\ calls < MaxCalls
    /\ calls' = calls + 1
    /\ pc' = [pc EXCEPT ![p] = first]
    /\ args' = [args EXCEPT ![p] = a]
    /\ seal' = [seal EXCEPT ![p] = NoSeal]
    /\ material' = [material EXCEPT ![p] = NoItem]
    /\ items' = [items EXCEPT ![p] = {}]
    /\ out' = [out EXCEPT ![p] = <<>>]
    /\ rpc' = [rpc EXCEPT ![p] = 0]
    /\ ret' = [ret EXCEPT ![p] = NoRet]
    /\ before' = [before EXCEPT ![p] = table]
    /\ met' = [met EXCEPT ![p] = ""]
    /\ scan' = [scan EXCEPT ![p] = {}]
    /\ UNCHANGED <<table, kms, written, tampered, ddb>>

\* the call of p returns (or panics) with r
Finish(p, r) ==
    /\ pc' = [pc EXCEPT ![p] = "done"]
    /\ ret' = [ret EXCEPT ![p] = r]

\* a request that is sent a second time whatever the answer to the first
RequestRepeated(p) == rpc' = [rpc EXCEPT ![p] = @ + 2]

\* the call of p makes one remote request
Request(p) == rpc' = [rpc EXCEPT ![p] = @ + 1]

\* the service answered the request of p with the error e ("" or NoFault: none)
Answered(p, e) ==
    met' = [met EXCEPT ![p] = IF e = "" \/ e = NoFault THEN @ ELSE e]

\* data keys not yet issued that are promised to PutSecret calls under way
KeysInUse == Len(kms) + Cardinality({q \in Procs : pc[q] = "put_generate"})

(***************************************************************************)
(* PutSecret                                                               *)
(***************************************************************************)
CallPutSecret(p, N, V, S, C) ==
    \E name \in N, version \in V, secret \in S, context \in C :
        /\ KeysInUse < MaxKeys
        /\ Begin(p, Args("PutSecret", name, version, secret, context),
                 "put_generate")

\* a data key kept from the first request and used again
CachedKeyId(k) == IF k = <<>> THEN 1 ELSE Len(k)

\* the data key a GenerateDataKey request returns: one not issued before
FreshKeyId(k) == Len(k) + 1

\* generateDataKey, then cryptAES and doHmac under the two halves of the key
PutGenerate(p) ==
    /\ pc[p] = "put_generate"
    /\ \E fault \in {NoFault} \cup KmsFaults :
        LET r == generateDataKey(KmsKeyId, args[p].context, fault)
            id == FreshKeyId(kms)
            plain == KeyMaterial(id)
            dataKey == SubSeq(plain, 1, EncKeyBytes)
            hmacKey == SubSeq(plain, EncKeyBytes + 1, Len(plain))
            cipherText == cryptAES(args[p].secret, dataKey)
        IN  /\ Answered(p, fault)
            /\ IF r.ret.kind # "ok"
               THEN /\ Finish(p, r.ret)
                    /\ UNCHANGED <<kms, seal>>
               ELSE /\ kms' = Append(kms, r.bound)
                    /\ seal' = [seal EXCEPT ![p] =
                           [key |-> Blob(id), contents |-> cipherText,
                            hmac |-> doHmac(cipherText, hmacKey)]]
                    /\ pc' = [pc EXCEPT ![p] = "put_item"]
                    /\ UNCHANGED ret
    /\ Request(p)
    /\ UNCHANGED <<table, args, material, items, out, calls, before, written,
                   tampered, scan, ddb>>

\* the history of a successful insert: the stored item and what it seals
Written(p, tbl) ==
    {[item |-> i, secret |-> args[p].secret, context |-> EncCtx(args[p].context)] :
        i \in ItemAt(tbl, args[p].name, args[p].version)}

PutInsert(p) ==
    /\ pc[p] = "put_item"
    /\ \E fault \in {NoFault} \cup StoreFaults :
        LET r == putItem(args[p].name, args[p].version, seal[p].key,
                         seal[p].contents, seal[p].hmac, table, fault)
        IN  /\ table' = r.tbl
            /\ Answered(p, r.err)
            /\ IF r.err = ""
               THEN /\ Finish(p, Ok)
                    /\ written' = written \cup Written(p, r.tbl)
               ELSE IF r.err = ConditionalCheckFailed
               THEN /\ pc' = [pc EXCEPT ![p] = "put_highest"]
                    /\ UNCHANGED <<ret, written>>
               ELSE /\ Finish(p, Err(r.err, "", 0))
                    /\ UNCHANGED written
    /\ Request(p)
    /\ UNCHANGED <<kms, args, seal, material, items, out, calls, before,
                   tampered, scan, ddb>>

\* after a failed condition: GetHighestVersion, then the conflict error
PutHighest(p) ==
    /\ pc[p] = "put_highest"
    /\ \E fault \in {NoFault} \cup StoreFaults :
        LET r == GetHighestVersion(args[p].name, table, fault)
        IN  /\ Answered(p, fault)
            /\ IF r.kind = "ok"
               THEN Finish(p, Err("VersionExists", args[p].name, r.num))
               ELSE IF r.kind = "error"
               THEN Finish(p, Err(r.code, "", 0))
               ELSE Finish(p, r)
    /\ Request(p)
    /\ UNCHANGED <<table, kms, args, seal, material, items, out, calls, before,
                   written, tampered, scan, ddb>>

(***************************************************************************)
(* GetSecret                                                               *)
(***************************************************************************)
CallGetSecret(p, N, V, C) ==
    \E name \in N, version \in V, context \in C :
        Begin(p, Args("GetSecret", name, version, <<>>, context), "get_material")

GetMaterial(p) ==
    /\ pc[p] = "get_material"
    /\ \E fault \in {NoFault} \cup StoreFaults :
        LET r == getMaterial(args[p].name, args[p].version, table, fault)
        IN  /\ Answered(p, fault)
            /\ IF r.ret.kind = "ok"
               THEN /\ material' = [material EXCEPT ![p] = r.material]
                    /\ pc' = [pc EXCEPT ![p] = "get_decrypt"]
                    /\ UNCHANGED ret
               ELSE /\ Finish(p, r.ret)
                    /\ UNCHANGED material
    /\ Request(p)
    /\ UNCHANGED <<table, kms, args, seal, items, out, calls, before, written,
                   tampered, scan, ddb>>

\* GetDecrypt that removes a record whose MAC does not verify
GetDecryptPurging(p) ==
    /\ pc[p] = "get_decrypt"
    /\ \E fault \in {NoFault} \cup KmsFaults :
        LET r == decryptMaterial(args[p].name, material[p], args[p].context,
                                 kms, fault)
        IN  /\ Finish(p, r)
            /\ Answered(p, fault)
            /\ table' = IF r.code = "HmacMismatch" THEN table \ {material[p]}
                        ELSE table
    /\ rpc' = [rpc EXCEPT ![p] = IF B64Ok(material[p].key) THEN @ + 1 ELSE @]
    /\ UNCHANGED <<kms, args, seal, material, items, out, calls, before,
                   written, tampered, scan, ddb>>

\* decryptMaterial makes its request only once the wrapped key has decoded
GetDecrypt(p) ==
    /\ pc[p] = "get_decrypt"
    /\ \E fault \in {NoFault} \cup KmsFaults :
        /\ Finish(p, decryptMaterial(args[p].name, material[p], args[p].context,
                                     kms, fault))
        /\ Answered(p, IF B64Ok(material[p].key)
                       THEN KmsDecrypt(kms, B64Decode(material[p].key),
                                       EncCtx(args[p].context), fault).err
                       ELSE "")
    /\ rpc' = [rpc EXCEPT ![p] = IF B64Ok(material[p].key) THEN @ + 1 ELSE @]
    /\ UNCHANGED <<table, kms, args, seal, material, items, out, calls, before,
                   written, tampered, scan, ddb>>

(***************************************************************************)
(* DeleteSecrets                                                           *)
(***************************************************************************)
CallDeleteSecrets(p, N, V) ==
    \E name \in N, version \in V :
        Begin(p, Args("DeleteSecrets", name, version, <<>>, {}), "delete_get")

DeleteGet(p) ==
    /\ pc[p] = "delete_get"
    /\ \E fault \in {NoFault} \cup StoreFaults :
        LET r == getDeleteSecrets(args[p].name, args[p].version, table, fault)
        IN  /\ Answered(p, fault)
            /\ IF r.ret.kind = "ok"
               THEN /\ items' = [items EXCEPT ![p] = r.items]
                    /\ pc' = [pc EXCEPT ![p] = "delete_item"]
                    /\ UNCHANGED ret
               ELSE /\ Finish(p, r.ret)
                    /\ UNCHANGED items
    /\ scan' = [scan EXCEPT ![p] = table]
    /\ Request(p)
    /\ UNCHANGED <<table, kms, args, seal, material, out, calls, before,
                   written, tampered, ddb>>

\* one turn of the loop over items, in the order the map yields them:
\* deleteItem, then Atoi of the version and the line printed
DeleteNext(p) ==
    /\ pc[p] = "delete_item"
    /\ \E it \in items[p], fault \in {NoFault} \cup StoreFaults :
        LET r == deleteItem(it[1], it[2], table, fault)
        IN  /\ table' = r.tbl
            /\ Answered(p, r.err)
            /\ written' = {w \in written :
                    ItemAt(r.tbl, w.item.name, w.item.version) # {}}
            /\ IF r.err # ""
               THEN /\ Finish(p, Err(r.err, "", 0))
                    /\ UNCHANGED <<items, out>>
               ELSE IF ~AtoiOk(it[2])
               THEN /\ Finish(p, Panic("atoi"))
                    /\ UNCHANGED <<items, out>>
               ELSE /\ out' = [out EXCEPT ![p] = Append(@, <<it[1], Atoi(it[2])>>)]
                    /\ items' = [items EXCEPT ![p] = @ \ {it}]
                    /\ IF items[p] = {it}
                       THEN Finish(p, Ok)
                       ELSE UNCHANGED <<pc, ret>>
    /\ Request(p)
    /\ UNCHANGED <<kms, args, seal, material, calls, before, tampered, scan,
                   ddb>>

(***************************************************************************)
(* GetHighestVersion and ListSecrets called on their own                   *)
(***************************************************************************)
CallGetHighestVersion(p, N) ==
    \E name \in N :
        Begin(p, Args("GetHighestVersion", name, <<>>, <<>>, {}), "highest")

HighestQuery(p) ==
    /\ pc[p] = "highest"
    /\ \E fault \in {NoFault} \cup StoreFaults :
        /\ Finish(p, GetHighestVersion(args[p].name, table, fault))
        /\ Answered(p, fault)
    /\ Request(p)
    /\ UNCHANGED <<table, kms, args, seal, material, items, out, calls, before,
                   written, tampered, scan, ddb>>

CallListSecrets(p) ==
    Begin(p, Args("ListSecrets", "", <<>>, <<>>, {}), "list")

ListScan(p) ==
    /\ pc[p] = "list"
    /\ \E fault \in {NoFault} \cup StoreFaults :
        /\ Finish(p, ListSecrets(table, fault))
        /\ Answered(p, fault)
    /\ Request(p)
    /\ UNCHANGED <<table, kms, args, seal, material, items, out, calls, before,
                   written, tampered, scan, ddb>>

(***************************************************************************)
(* CreateDdbTable: isTableExits, createTable, waitUntilTableExists.  The   *)
(* table name is the name argument of the call.  ListTables answers in one *)
(* page and names a table from the moment its creation is accepted; the    *)
(* service refuses a CreateTable for a name in use; the waiter polls       *)
(* DescribeTable until the status is ACTIVE or it gives up.                *)
(***************************************************************************)
TableInUse == "ResourceInUseException"
WaiterGaveUp == "ResourceNotReady"

\* isTableExits: the error ("" for none) and whether the name is listed
isTableExits(tbl, d, fault) ==
    IF fault # NoFault THEN [err |-> fault, exist |-> FALSE]
    ELSE [err |-> "", exist |-> d[tbl].status # "NONE"]

\* createTable: the error ("" for none) and the tables after the request
createTable(tbl, d, fault) ==
    IF fault # NoFault THEN [err |-> fault, ddb |-> d]
    ELSE IF d[tbl].status # "NONE" THEN [err |-> TableInUse, ddb |-> d]
    ELSE [err |-> "",
          ddb |-> [d EXCEPT ![tbl] = TableState("CREATING", @.created + 1)]]

\* waitUntilTableExists that reports the table without looking at its status
waitUntilTableExistsNoPoll(tbl, d, fault) ==
    IF fault # NoFault THEN fault ELSE ""

\* waitUntilTableExists: the error ("" for none) once the waiter returns;
\* it returns without error only on a status of ACTIVE
waitUntilTableExists(tbl, d, fault) ==
    IF fault # NoFault THEN fault
    ELSE IF d[tbl].status = "ACTIVE" THEN ""
    ELSE WaiterGaveUp

CallCreateDdbTable(p, T) ==
    \E tbl \in T :
        Begin(p, Args("CreateDdbTable", tbl, <<>>, <<>>, {}), "create_check")

CreateCheck(p) ==
    /\ pc[p] = "create_check"
    /\ \E fault \in {NoFault} \cup StoreFaults :
        LET r == isTableExits(args[p].name, ddb, fault)
        IN  /\ Answered(p, r.err)
            /\ IF r.err # "" THEN Finish(p, Err(r.err, "", 0))
               ELSE IF r.exist THEN Finish(p, Err("TableExists", args[p].name, 0))
               ELSE /\ pc' = [pc EXCEPT ![p] = "create_table"]
                    /\ UNCHANGED ret
    /\ Request(p)
    /\ UNCHANGED <<table, kms, args, seal, material, items, out, calls, before,
                   written, tampered, scan, ddb>>

CreateTable(p) ==
    /\ pc[p] = "create_table"
    /\ \E fault \in {NoFault} \cup StoreFaults :
        LET r == createTable(args[p].name, ddb, fault)
        IN  /\ Answered(p, r.err)
            /\ ddb' = r.ddb
            /\ IF r.err # "" THEN Finish(p, Err(r.err, "", 0))
               ELSE /\ pc' = [pc EXCEPT ![p] = "create_wait"]
                    /\ UNCHANGED ret
    /\ Request(p)
    /\ UNCHANGED <<table, kms, args, seal, material, items, out, calls, before,
                   written, tampered, scan>>

\* the waiter returns: at once when the table is active, else when it gives
\* up (while it polls a table that is being created nothing changes)
CreateWait(p) ==
    /\ pc[p] = "create_wait"
    /\ \E fault \in {NoFault} \cup StoreFaults :
        LET err == waitUntilTableExists(args[p].name, ddb, fault)
        IN  /\ Answered(p, err)
            /\ Finish(p, IF err # "" THEN Err(err, "", 0) ELSE Ok)
    /\ Request(p)
    /\ UNCHANGED <<table, kms, args, seal, material, items, out, calls, before,
                   written, tampered, scan, ddb>>

CreateSteps(p) == CreateCheck(p) \/ CreateTable(p) \/ CreateWait(p)

\* the service finishes the creation of a table
Activate ==
    /\ \E tbl \in TableNames :
        /\ ddb[tbl].status = "CREATING"
        /\ ddb' = [ddb EXCEPT ![tbl].status = "ACTIVE"]
    /\ UNCHANGED <<table, kms, pc, args, seal, material, items, out, rpc, ret,
                   calls, before, written, tampered, met, scan>>

(***************************************************************************)
(* Specifications.  Every request of a call is one atomic step.  Each      *)
(* specification draws the arguments its claims do not turn on from a      *)
(* single value, to keep the reachable states within reach.                *)
(***************************************************************************)
AnyVersion == Versions \cup {NoVersion}
OneName == {"a"}
OneSecret == {<<115>>}
NoContext == {{}}
\* the caller of the specifications in which calls follow one another
Caller == "p1"

PutSteps(p) == PutGenerate(p) \/ PutInsert(p) \/ PutHighest(p)

GetSteps(p) == GetMaterial(p) \/ GetDecrypt(p)

DeleteSteps(p) == DeleteGet(p) \/ DeleteNext(p)

Step(p) ==
    \/ PutSteps(p)
    \/ GetSteps(p)
    \/ DeleteSteps(p)
    \/ HighestQuery(p)
    \/ ListScan(p)

\* versioning, one caller: every operation, name and version
NextSeq ==
    \/ CallPutSecret(Caller, Names, AnyVersion, OneSecret, NoContext)
    \/ CallGetSecret(Caller, Names, AnyVersion, NoContext)
    \/ CallDeleteSecrets(Caller, Names, AnyVersion)
    \/ CallGetHighestVersion(Caller, Names)
    \/ CallListSecrets(Caller)
    \/ Step(Caller)

SpecSeq == Init /\ [][NextSeq]_vars

\* sealing, one caller: PutSecret, GetSecret and DeleteSecrets on one name,
\* every secret and context
SealVersions == {<<49>>, <<57>>}

NextSeal ==
    \/ CallPutSecret(Caller, OneName, SealVersions, Secrets, Contexts)
    \/ CallGetSecret(Caller, OneName, SealVersions \cup {NoVersion}, Contexts)
    \/ CallDeleteSecrets(Caller, OneName, SealVersions)
    \/ PutSteps(Caller)
    \/ GetSteps(Caller)
    \/ DeleteSteps(Caller)

SpecSeal == Init /\ [][NextSeal]_vars

(***************************************************************************)
(* A party with write access to the table alters one character of the      *)
(* contents or of the hmac of a stored item.                               *)
(***************************************************************************)
\* "0", "A" and "!"
TamperChars == {48, 65, 33}

Tamper ==
    /\ tampered < MaxTamper
    /\ \E i \in table, f \in {"contents", "hmac"} :
        \E pos \in 1..Len(i[f]), c \in TamperChars :
            /\ c # i[f][pos]
            /\ table' = (table \ {i}) \cup {[i EXCEPT ![f] = [@ EXCEPT ![pos] = c]]}
    /\ tampered' = tampered + 1
    /\ UNCHANGED <<kms, pc, args, seal, material, items, out, rpc, ret, calls,
                   before, written, met, scan, ddb>>

\* sealing with tampering, one caller: PutSecret and GetSecret on one key
TamperVersions == {<<49>>}

NextTamper ==
    \/ CallPutSecret(Caller, OneName, TamperVersions, Secrets, NoContext)
    \/ CallGetSecret(Caller, OneName, TamperVersions \cup {NoVersion}, NoContext)
    \/ PutSteps(Caller)
    \/ GetSteps(Caller)
    \/ Tamper

SpecTamper == Init /\ [][NextTamper]_vars

\* the first character of the hmac of a stored item is altered
TamperMac ==
    /\ tampered < MaxTamper
    /\ \E i \in table, c \in TamperChars :
        /\ c # i.hmac[1]
        /\ table' = (table \ {i}) \cup {[i EXCEPT !.hmac = [@ EXCEPT ![1] = c]]}
    /\ tampered' = tampered + 1
    /\ UNCHANGED <<kms, pc, args, seal, material, items, out, rpc, ret, calls,
                   before, written, met, scan, ddb>>

\* reading, one caller: the three read operations on what PutSecret stored
\* under a context or none, with tampering
ReadContexts == {{}, {<<"env", "prod">>}}

NextRead ==
    \/ CallPutSecret(Caller, OneName, TamperVersions, OneSecret, ReadContexts)
    \/ CallGetSecret(Caller, OneName, TamperVersions \cup {NoVersion}, ReadContexts)
    \/ CallGetHighestVersion(Caller, OneName)
    \/ CallListSecrets(Caller)
    \/ PutSteps(Caller)
    \/ GetSteps(Caller)
    \/ HighestQuery(Caller)
    \/ ListScan(Caller)
    \/ TamperMac

SpecRead == Init /\ [][NextRead]_vars

\* concurrent callers, CreateDdbTable only, on tables that exist or not
InitCreate ==
    /\ Fresh
    /\ ddb \in [TableNames -> {TableState("NONE", 0), TableState("ACTIVE", 0)}]

NextCreate ==
    \/ \E p \in Procs :
          \/ /\ calls < MaxConcurrentCalls
             /\ CallCreateDdbTable(p, TableNames)
          \/ CreateSteps(p)
    \/ Activate

SpecCreate == InitCreate /\ [][NextCreate]_vars

\* concurrent callers, PutSecret only
RaceVersions == {<<49>>, <<120>>}

NextPut ==
    \E p \in Procs :
        \/ /\ calls < MaxConcurrentCalls
           /\ CallPutSecret(p, OneName, RaceVersions, OneSecret, NoContext)
        \/ PutSteps(p)

SpecPut == Init /\ [][NextPut]_vars

\* concurrent callers, PutSecret and DeleteSecrets of every version, two names
NextDelete ==
    \E p \in Procs :
        \/ /\ calls < MaxConcurrentCalls
           /\ \/ CallPutSecret(p, Names, SealVersions, OneSecret, NoContext)
              \/ CallDeleteSecrets(p, Names, {NoVersion})
        \/ PutSteps(p)
        \/ DeleteSteps(p)

SpecDelete == Init /\ [][NextDelete]_vars

\* concurrent callers, every operation
SpecVersions == {<<49>>, <<57>>, NoVersion}

Next ==
    \E p \in Procs :
        \/ /\ calls < MaxConcurrentCalls
           /\ \/ CallPutSecret(p, OneName, SpecVersions, OneSecret, NoContext)
              \/ CallGetSecret(p, OneName, SpecVersions, NoContext)
              \/ CallDeleteSecrets(p, OneName, SpecVersions)
              \/ CallGetHighestVersion(p, OneName)
              \/ CallListSecrets(p)
        \/ Step(p)

Spec == Init /\ [][Next]_vars

(***************************************************************************)
(* Vocabulary of the claims                                                *)
(***************************************************************************)
Done(p, op) == pc[p] = "done" /\ args[p].op = op

\* the call failed on a failure of a remote service
ServiceFailure(r) ==
    r.kind = "error" /\ r.code \in ServiceErrors \cup {"CouldNotGenerateKey"}

\* the item a PutSecret call under way or done asks the table to insert
StoredItem(p) ==
    Item(args[p].name, args[p].version, B64Encode(seal[p].key),
         B64Encode(seal[p].contents), HexEncode(seal[p].hmac))

AllNumeric(its) == \A i \in its : AtoiOk(i.version)

\* the items of its whose version is numerically greatest
NumericNewest(its) ==
    {i \in its : \A j \in its : Atoi(j.version) <= Atoi(i.version)}

SameKey(p, q) ==
    args[p].name = args[q].name /\ args[p].version = args[q].version

Held(tbl, p) == ItemAt(tbl, args[p].name, args[p].version)

(***************************************************************************)
(* C1.  Two PutSecret calls with the same (name, version) running          *)
(* concurrently against a table that does not hold that key: exactly one   *)
(* returns success, the other returns the version-conflict error, and the  *)
(* table then holds exactly one item for the key, the one the successful   *)
(* call wrote.  (Calls that met a failure of a remote service are left     *)
(* aside.)  The code violates it: see C1_PutRace under SpecPut.            *)
(***************************************************************************)
C1_PutRace ==
    \A p, q \in Procs :
        (/\ p # q
         /\ Done(p, "PutSecret") /\ Done(q, "PutSecret")
         /\ SameKey(p, q)
         /\ Held(before[p], p) = {} /\ Held(before[q], q) = {}
         /\ ~ServiceFailure(ret[p]) /\ ~ServiceFailure(ret[q]))
        => \E w, l \in {p, q} :
              /\ w # l
              /\ ret[w] = Ok
              /\ ret[l].kind = "error" /\ ret[l].code = "VersionExists"
              /\ Held(table, w) = {StoredItem(w)}

(***************************************************************************)
(* C2.  Round trip: once PutSecret(name, p, v, c) has succeeded and the    *)
(* record has not been deleted, GetSecret(name, v, c) returns exactly p    *)
(* and no error, unless a remote service fails.                            *)
(***************************************************************************)
\* what the Put behind the stored record (name, version) sealed
WrittenAt(name, version) ==
    {w \in written : w.item.name = name /\ w.item.version = version}

C2_RoundTrip ==
    \A p \in Procs :
        (/\ Done(p, "GetSecret")
         /\ args[p].version # NoVersion
         /\ ~ServiceFailure(ret[p]))
        => \A w \in WrittenAt(args[p].name, args[p].version) :
              w.context = EncCtx(args[p].context) => ret[p] = OkText(w.secret)

\* a three-byte secret sealed under a context has been read back
C2_Witness ==
    \E p \in Procs :
        /\ Done(p, "GetSecret")
        /\ args[p].version # NoVersion
        /\ args[p].context # {}
        /\ ret[p] = OkText(<<110, 101, 119>>)
        /\ \E w \in WrittenAt(args[p].name, args[p].version) :
              w.context = args[p].context /\ w.secret = ret[p].text

(***************************************************************************)
(* C3.  GetSecret(name, "") returns the secret of the record under name    *)
(* whose version is numerically greatest (stated where every version       *)
(* under name is a number).  The code violates it: it takes the record     *)
(* whose version string is greatest byte-wise.                             *)
(***************************************************************************)
C3_LatestIsNumericallyGreatest ==
    \A p \in Procs :
        (/\ Done(p, "GetSecret")
         /\ args[p].version = NoVersion
         /\ ret[p].kind = "ok"
         /\ AllNumeric(ItemsOf(table, args[p].name)))
        => /\ material[p] \in NumericNewest(ItemsOf(table, args[p].name))
           /\ \A w \in written :
                 w.item \in NumericNewest(ItemsOf(table, args[p].name))
                 => ret[p].text = w.secret

(***************************************************************************)
(* C4.  GetHighestVersion(name) returns 0 without error exactly when the   *)
(* table holds no record under name, and otherwise the numerically         *)
(* greatest version under name (stated where every version under name is   *)
(* a number).  The code violates it, as in C3.                             *)
(***************************************************************************)
C4_HighestVersion ==
    \A p \in Procs :
        (/\ Done(p, "GetHighestVersion")
         /\ ~ServiceFailure(ret[p])
         /\ AllNumeric(ItemsOf(table, args[p].name)))
        => /\ ret[p].kind = "ok"
           /\ (ret[p].num = 0) <=> (ItemsOf(table, args[p].name) = {})
           /\ \A i \in NumericNewest(ItemsOf(table, args[p].name)) :
                 ret[p].num = Atoi(i.version)

(***************************************************************************)
(* C5.  When the conditional insert of PutSecret(name, _, v) is rejected,  *)
(* the error names the highest version stored under name, a version that   *)
(* is in the table (stated where every version under name is a number).    *)
(* The code violates it, as in C3, even when calls follow one another.     *)
(***************************************************************************)
C5_ConflictNamesHighest ==
    \A p \in Procs :
        (/\ Done(p, "PutSecret")
         /\ ret[p].kind = "error" /\ ret[p].code = "VersionExists"
         /\ AllNumeric(ItemsOf(table, args[p].name)))
        => /\ ret[p].name = args[p].name
           /\ \E i \in NumericNewest(ItemsOf(table, args[p].name)) :
                 ret[p].num = Atoi(i.version)

(***************************************************************************)
(* C6.  A record is immutable once written: no step changes the payload    *)
(* of a stored record; a record appears only by the insert of a PutSecret  *)
(* call on a key that is absent, with the payload that call sealed, and    *)
(* disappears only by the delete of a DeleteSecrets call; a key never      *)
(* holds two records.                                                      *)
(***************************************************************************)
UniqueKeys(tbl) ==
    \A i, j \in tbl : (i.name = j.name /\ i.version = j.version) => i = j

C6_Immutable ==
    [][/\ UniqueKeys(table')
       /\ \A i \in table : ItemAt(table', i.name, i.version) \subseteq {i}
       /\ \A j \in table' \ table :
             \E p \in Procs :
                 /\ pc[p] = "put_item"
                 /\ ItemAt(table, j.name, j.version) = {}
                 /\ j = StoredItem(p)
       /\ \A i \in table \ table' :
             \E p \in Procs :
                 pc[p] = "delete_item" /\ <<i.name, i.version>> \in items[p]
      ]_vars

\* a PutSecret met the record another PutSecret had stored, which is still there
C6_Witness ==
    \E p \in Procs :
        /\ Done(p, "PutSecret")
        /\ ret[p].code = "VersionExists"
        /\ Held(table, p) # {}
        /\ Held(table, p) # {StoredItem(p)}

(***************************************************************************)
(* C7.  With no concurrent writer, a successful DeleteSecrets(name, "")    *)
(* removes every record of name and leaves the records of other names;     *)
(* a successful DeleteSecrets(name, v) removes the record (name, v) and    *)
(* leaves every other record.                                              *)
(***************************************************************************)
C7_DeleteFrame ==
    \A p \in Procs :
        (Done(p, "DeleteSecrets") /\ ret[p] = Ok)
        => IF args[p].version = NoVersion
           THEN table = before[p] \ ItemsOf(before[p], args[p].name)
           ELSE /\ Held(before[p], p) # {}
                /\ table = before[p] \ Held(before[p], p)

\* two versions of a name were deleted and a record of another name is left
C7_Witness ==
    \E p \in Procs :
        /\ Done(p, "DeleteSecrets") /\ ret[p] = Ok
        /\ args[p].version = NoVersion
        /\ Cardinality(ItemsOf(before[p], args[p].name)) >= 2
        /\ table # {}

(***************************************************************************)
(* C8.  DeleteSecrets on a target that does not exist returns the          *)
(* not-found error as an error value and leaves the table unchanged, for   *)
(* every name and version string, numeric or not.  The code violates it.   *)
(***************************************************************************)
C8_DeleteMissing ==
    \A p \in Procs :
        (/\ Done(p, "DeleteSecrets")
         /\ ~ServiceFailure(ret[p])
         /\ IF args[p].version = NoVersion
            THEN ItemsOf(before[p], args[p].name) = {}
            ELSE Held(before[p], p) = {})
        => /\ ret[p].kind = "error"
           /\ ret[p].code \in {"NotFound", "NotFoundVersion"}
           /\ ret[p].name = args[p].name
           /\ table = before[p]

(***************************************************************************)
(* C9.  Integrity: when the stored ciphertext or the stored MAC of the     *)
(* record is not what PutSecret wrote (the attribute does not decode to    *)
(* the bytes written), GetSecret fails with the integrity error naming     *)
(* the secret and returns no plaintext.  The code violates it.             *)
(***************************************************************************)
SameBytes64(s, t) == B64Ok(s) /\ B64Ok(t) /\ B64Decode(s) = B64Decode(t)

SameBytesHex(s, t) == HexOk(s) /\ HexOk(t) /\ HexDecode(s) = HexDecode(t)

\* the record GetSecret read differs from the one written under its key
Altered(p) ==
    \E w \in WrittenAt(material[p].name, material[p].version) :
        \/ ~SameBytes64(material[p].contents, w.item.contents)
        \/ ~SameBytesHex(material[p].hmac, w.item.hmac)

C9_Integrity ==
    \A p \in Procs :
        (/\ Done(p, "GetSecret")
         /\ material[p] # NoItem
         /\ Altered(p)
         /\ ~ServiceFailure(ret[p]))
        => ret[p] = Err("HmacMismatch", args[p].name, 0)

(***************************************************************************)
(* C10.  Context binding: GetSecret on a record sealed under a context c1  *)
(* with a context c2 # c1 fails with a decryption error and returns no     *)
(* plaintext; the error says a context may be required when c2 is empty    *)
(* and that the context may not match when c2 is not empty.                *)
(***************************************************************************)
C10_ContextBinding ==
    \A p \in Procs :
        (/\ Done(p, "GetSecret")
         /\ material[p] # NoItem
         /\ ~ServiceFailure(ret[p]))
        => \A w \in written :
              (w.item = material[p] /\ w.context # EncCtx(args[p].context))
              => ret[p] = Err(IF args[p].context = {}
                              THEN "DecryptContextRequired"
                              ELSE "DecryptContextMismatch", args[p].name, 0)

\* a record sealed under one context was asked for under another, not empty
C10_Witness ==
    \E p \in Procs :
        /\ Done(p, "GetSecret")
        /\ args[p].context # {}
        /\ ret[p].code = "DecryptContextMismatch"
        /\ \E w \in written :
              w.item = material[p] /\ w.context # {} /\ w.context # args[p].context

(***************************************************************************)
(* C11.  MAC verification fails closed: when the stored hmac is no hex     *)
(* string, checkMAC returns false and GetSecret returns the integrity      *)
(* error, as for a MAC that does not match; it does not panic.  The code   *)
(* violates it.                                                            *)
(***************************************************************************)
C11_MacFailsClosed ==
    \A p \in Procs :
        (/\ Done(p, "GetSecret")
         /\ material[p] # NoItem
         /\ B64Ok(material[p].contents)
         /\ ~HexOk(material[p].hmac)
         /\ ~ServiceFailure(ret[p]))
        => /\ ret[p].kind # "panic"
           /\ ret[p] = Err("HmacMismatch", args[p].name, 0)

(***************************************************************************)
(* C12.  Error propagation: a call that a remote service answered with an  *)
(* error returns that same error, unchanged, except that a rejected        *)
(* conditional insert becomes the version-conflict error and a Decrypt     *)
(* refused as invalid ciphertext becomes the context hint.  The code       *)
(* violates it: generateDataKey replaces the error of the service.         *)
(***************************************************************************)
C12_ErrorsPropagate ==
    \A p \in Procs :
        (pc[p] = "done" /\ met[p] # "")
        => /\ ret[p].kind = "error"
           /\ IF met[p] = ConditionalCheckFailed
              THEN ret[p].code = "VersionExists"
              ELSE IF met[p] = InvalidCiphertext
              THEN ret[p].code \in {"DecryptContextRequired",
                                    "DecryptContextMismatch"}
              ELSE ret[p] = Err(met[p], "", 0)

(***************************************************************************)
(* C13.  ListSecrets returns exactly one (name, version) entry for each    *)
(* record of the table, several versions of a name included, and an empty  *)
(* result without error on an empty table, unless the Scan fails.          *)
(***************************************************************************)
C13_ListExact ==
    \A p \in Procs :
        (Done(p, "ListSecrets") /\ ~ServiceFailure(ret[p]))
        => /\ ret[p].kind = "ok"
           /\ \A i \in table : <<i.name, i.version>> \in ret[p].list
           /\ \A e \in ret[p].list : ItemAt(table, e[1], e[2]) # {}
           /\ Cardinality(ret[p].list) = Cardinality(table)

\* two versions of one name and a record of another name were listed
C13_Witness ==
    \E p \in Procs :
        /\ Done(p, "ListSecrets") /\ ret[p].kind = "ok"
        /\ \E e, f, g \in ret[p].list :
              e[1] = f[1] /\ e[2] # f[2] /\ g[1] # e[1]
        /\ Cardinality(table) = 3

(***************************************************************************)
(* C14.  GetSecret, GetHighestVersion and ListSecrets never change the     *)
(* table: no step of a call of theirs, whether it goes on, succeeds or     *)
(* fails with any error, adds, removes or alters a record.                 *)
(***************************************************************************)
ReadOps == {"GetSecret", "GetHighestVersion", "ListSecrets"}

C14_ReadsChangeNothing ==
    [][\A p \in Procs :
          (args[p].op \in ReadOps /\ ~Resting(p) /\ pc'[p] # pc[p])
          => table' = table
      ]_vars

\* a GetSecret failed the MAC check of a record, which is still stored
C14_Witness ==
    \E p \in Procs :
        /\ Done(p, "GetSecret")
        /\ ret[p].code = "HmacMismatch"
        /\ material[p] \in table

(***************************************************************************)
(* C15.  CreateDdbTable is check-then-create: on a table that exists it    *)
(* fails with the already-exists error after one request, the check, and   *)
(* issues no CreateTable; on a table that does not exist it issues one     *)
(* CreateTable and returns success only once the waiter has found the      *)
(* table active; of two concurrent calls for the same missing table at     *)
(* most one returns success and the table is created once.                 *)
(***************************************************************************)
C15_CheckThenCreate ==
    /\ \A t \in TableNames : ddb[t].created <= 1
    /\ \A p \in Procs :
          Done(p, "CreateDdbTable")
          => /\ ret[p] = Ok
                => /\ ddb[args[p].name] = TableState("ACTIVE", 1)
                   /\ rpc[p] = 3
             /\ ret[p].code = "TableExists"
                => /\ ret[p] = Err("TableExists", args[p].name, 0)
                   /\ rpc[p] = 1
                   /\ ddb[args[p].name].status # "NONE"
             /\ (/\ ddb[args[p].name].created = 0
                 /\ ddb[args[p].name].status # "NONE"
                 /\ ~ServiceFailure(ret[p]))
                => ret[p] = Err("TableExists", args[p].name, 0)
    /\ \A p \in Procs : pc[p] = "create_wait" => rpc[p] = 2
    /\ \A p, q \in Procs :
          (/\ p # q
           /\ Done(p, "CreateDdbTable") /\ Done(q, "CreateDdbTable")
           /\ args[p].name = args[q].name)
          => ~(ret[p] = Ok /\ ret[q] = Ok)

\* two calls raced for a missing table: one created it and returned success
\* once it was active, the service refused the CreateTable of the other
C15_Witness ==
    \E p, q \in Procs :
        /\ Done(p, "CreateDdbTable") /\ Done(q, "CreateDdbTable")
        /\ args[p].name = args[q].name
        /\ ret[p] = Ok
        /\ ret[q].code = TableInUse
        /\ ddb[args[p].name] = TableState("ACTIVE", 1)

(***************************************************************************)
(* C16.  Fresh data key per record: every PutSecret call seals under the   *)
(* data key of the one GenerateDataKey request it made, no data key is     *)
(* held by two calls or by two stored records, and the stored ciphertext   *)
(* is the one encryption of the call's secret under the first half of that *)
(* key; so it is after failed and conflicting calls too.                   *)
(***************************************************************************)
\* the encryption key under which a stored record was sealed
DataKeyOf(i) ==
    SubSeq(KmsPlaintext(kms, B64Decode(i.key)), 1, EncKeyBytes)

Sealing(p) ==
    args[p].op = "PutSecret" /\ pc[p] \in {"put_item", "put_highest", "done"}
    /\ seal[p] # NoSeal

C16_FreshKeys ==
    /\ Len(kms) <= calls
    /\ \A i, j \in table : i # j => DataKeyOf(i) # DataKeyOf(j)
    /\ \A w \in written :
          w.item \in table
          => B64Decode(w.item.contents) = cryptAES(w.secret, DataKeyOf(w.item))
    /\ \A p \in Procs :
          /\ pc[p] = "put_item" => rpc[p] = 1
          /\ Sealing(p)
             => /\ \E id \in 1..Len(kms) : seal[p].key = Blob(id)
                /\ \A q \in Procs \ {p} : seal[q].key # seal[p].key
                /\ \A i \in table :
                      i.key = B64Encode(seal[p].key) => i = StoredItem(p)

\* two records are stored and a third call, which met a conflict, had a key
\* of its own that no record holds
C16_Witness ==
    /\ Cardinality(table) = 2
    /\ \E p \in Procs :
          /\ Done(p, "PutSecret")
          /\ ret[p].code = "VersionExists"
          /\ \A i \in table : i.key # B64Encode(seal[p].key)
          /\ Len(kms) = 3

(***************************************************************************)
(* C17.  Deletion log: DeleteSecrets prints a line "Deleting <name> --      *)
(* version <n>" for a record only after the delete of that record          *)
(* succeeded, and every record it removed is reported by exactly one line  *)
(* (as many lines as records removed), for every stored version string.    *)
(* Stated with one caller, where the records missing since the call began  *)
(* are those the call removed.  The code violates it.                      *)
(***************************************************************************)
C17_DeletionLog ==
    \A p \in Procs :
        (args[p].op = "DeleteSecrets" /\ pc[p] \in {"delete_item", "done"})
        => /\ \A k \in 1..Len(out[p]) :
                 \E i \in before[p] \ table :
                     /\ i.name = out[p][k][1]
                     /\ AtoiOk(i.version)
                     /\ Atoi(i.version) = out[p][k][2]
           /\ Len(out[p]) = Cardinality(before[p] \ table)

(***************************************************************************)
(* C18.  Remote calls of an operation.  As claimed: every core operation   *)
(* (Put, Get, List, Delete) makes at most three remote requests before it  *)
(* returns or fails, DeleteSecrets(name, "") included.  The code violates  *)
(* that: see C18_AtMostThree.  As amended: PutSecret makes at most three   *)
(* requests, GetSecret at most two, ListSecrets and GetHighestVersion one, *)
(* and DeleteSecrets one lookup and at most one delete for each record the *)
(* lookup found.                                                           *)
(***************************************************************************)
CoreOps == {"PutSecret", "GetSecret", "ListSecrets", "DeleteSecrets"}

C18_AtMostThree ==
    \A p \in Procs : args[p].op \in CoreOps => rpc[p] <= 3

\* the records the lookup of DeleteSecrets found
Found(p) ==
    IF args[p].version = NoVersion
    THEN ItemsOf(scan[p], args[p].name)
    ELSE ItemAt(scan[p], args[p].name, args[p].version)

C18_RemoteCalls ==
    \A p \in Procs :
        /\ args[p].op = "PutSecret" => rpc[p] <= 3
        /\ args[p].op = "GetSecret" => rpc[p] <= 2
        /\ args[p].op \in {"ListSecrets", "GetHighestVersion"} => rpc[p] <= 1
        /\ args[p].op = "DeleteSecrets"
           => /\ rpc[p] <= 1 + Cardinality(Found(p))
              /\ (pc[p] = "done" /\ ret[p] = Ok)
                 => rpc[p] = 1 + Cardinality(Found(p))

\* a DeleteSecrets(name, "") found three versions and made four requests
C18_Witness ==
    \E p \in Procs :
        /\ Done(p, "DeleteSecrets") /\ ret[p] = Ok
        /\ args[p].version = NoVersion
        /\ Cardinality(Found(p)) = 3
        /\ rpc[p] = 4

(***************************************************************************)
(* C19.  A PutSecret call that returns an error (no data key, version      *)
(* conflict, failed insert) has added no record and changed none: the      *)
(* table is as it was when the call began (one caller); and when the data  *)
(* key could not be generated the insert was never attempted.              *)
(***************************************************************************)
C19_FailedPutChangesNothing ==
    \A p \in Procs :
        (Done(p, "PutSecret") /\ ret[p].kind = "error")
        => /\ table = before[p]
           /\ ret[p].code = "CouldNotGenerateKey"
              => (rpc[p] = 1 /\ seal[p] = NoSeal /\ met[p] \in KmsFaults)

\* a PutSecret met a version conflict and the record it met is still stored
C19_Witness ==
    \E p \in Procs :
        /\ Done(p, "PutSecret")
        /\ ret[p].code = "VersionExists"
        /\ rpc[p] = 3
        /\ Held(table, p) # {}
        /\ Held(table, p) # {StoredItem(p)}
        /\ table = before[p]

(***************************************************************************)
(* C20.  DeleteSecrets(name, "") among concurrent PutSecret calls: once    *)
(* the call has returned success, every record of name that was stored     *)
(* when its lookup ran has been removed, every record still stored under   *)
(* name was inserted by a PutSecret after that lookup, and no step of the  *)
(* call has removed a record of another name.                              *)
(***************************************************************************)
DeletedAll(p) ==
    (Done(p, "DeleteSecrets") /\ args[p].version = NoVersion /\ ret[p] = Ok)
    => /\ ItemsOf(scan[p], args[p].name) # {}
       /\ ItemsOf(scan[p], args[p].name) \cap table = {}
       /\ \A i \in ItemsOf(table, args[p].name) :
             i \notin scan[p] /\ \E w \in written : w.item = i

C20_DeleteAllUnderPuts ==
    [][\A p \in Procs :
          /\ DeletedAll(p)'
          /\ (args[p].op = "DeleteSecrets" /\ rpc'[p] # rpc[p])
             => \A i \in table \ table' : i.name = args[p].name
      ]_vars

\* a DeleteSecrets(name, "") found a record and returned success, and the
\* record of a PutSecret of the other caller on that name is stored: that
\* call began before the record found was there and inserted after the lookup
C20_Witness ==
    \E p, q \in Procs :
        /\ p # q
        /\ Done(p, "DeleteSecrets") /\ args[p].version = NoVersion /\ ret[p] = Ok
        /\ ItemsOf(scan[p], args[p].name) # {}
        /\ Done(q, "PutSecret") /\ ret[q] = Ok
        /\ args[q].name = args[p].name
        /\ ItemsOf(before[q], args[p].name) = {}
        /\ StoredItem(q) \in table
        /\ StoredItem(q) \notin scan[p]

====
